---------------------------- MODULE Spec2Model ----------------------------
(***************************************************************************)
(* The MiniMe avatar front end: App (src/src/App.tsx), the state machine   *)
(* hook useMiniMeState, the blink scheduler useBlink, the face component   *)
(* MiniMeFace and the socket bridge of the preload script.                 *)
(*                                                                         *)
(* Amplitudes and levels are fixed-point thousandths: 0.1 is 100, 0.03 is  *)
(* 30, 1.0 is 1000.  Time is in milliseconds; a timer is a record          *)
(* [armed, left] with `left` the milliseconds until it is due.             *)
(*                                                                         *)
(* React semantics that the code relies on are part of the model: a state  *)
(* setter called outside a render only queues an update; a render commits  *)
(* every queued update at once and then runs, in source order, the effects *)
(* whose dependencies changed, each reading the values of that render.     *)
(* Updates that arrive from different callbacks before the render React    *)
(* scheduled are committed by that one render; the re-render that an       *)
(* effect's own setConfig schedules runs before any other callback.        *)
(***************************************************************************)
EXTENDS Integers, Sequences, FiniteSets, TLC

\* ------------------------------------------------------------ constants

WakeHoldMs == 500
ListeningToIdleMs == 3000
IdleToSleepMs == 10000
BlinkCloseMs == 120
BlinkMinMs == 3000
BlinkSpanMs == 3000
LoudThreshold == 100
SilenceThreshold == 30
Cols == 12
Rows == 7

\* ------------------------------------------------------------ bounds

\* The animation frame counter is capped here.
MaxFrame == 1
\* The time since a wake event is followed for this many milliseconds.
WakeWatchMs == 1500
\* The time since mount is followed for this many milliseconds.
ScriptEndMs == 14000
\* The scripted run is loud for this many milliseconds, and silent after.
ScriptLoudMs == 200
\* Frames of animation the synthesizer is followed for.
SynthFrames == 32

\* Sampled amplitudes (thousandths): silence (two values), the band between
\* the thresholds, loud.
Amplitudes == {0, 10, 50, 500}

\* Delays 3000 + Math.random() * 3000 drawn by scheduleBlink.
BlinkDelays == {BlinkMinMs, BlinkMinMs + BlinkSpanMs - 100}

\* Amounts by which time may advance in one step.
TickSteps == {1000}

\* ------------------------------------------------------------ values

Fill(v) == [i \in 1..Cols |-> v]

\* A Date.now() stamp is kept by its age: taken at the present instant, or
\* earlier.  NullTime is null.
NullTime == "null"
Now == "now"
Earlier == "earlier"

Off == [armed |-> FALSE, left |-> 0]
Armed(ms) == [armed |-> TRUE, left |-> ms]
Due(t) == t.armed /\ t.left = 0

Min(a, b) == IF a < b THEN a ELSE b

\* What JSON.parse of a message can give the handler.  isNull is the JSON
\* value null; hasLevels says whether the object carries a levels array.
Msg(ev, has, lv) == [isNull |-> FALSE, event |-> ev, hasLevels |-> has, levels |-> lv]
NullEvent == [isNull |-> TRUE, event |-> "", hasLevels |-> FALSE, levels |-> <<>>]

TalkLevels == {Fill(700), <<1500, 500, 500>>}

Messages ==
    {Msg(k, FALSE, <<>>) : k \in {"wake", "listening", "thinking", "talk", "idle", "sleep", "bogus"}}
    \cup {Msg("talk", TRUE, lv) : lv \in TalkLevels}
    \cup {NullEvent}

LogicalStates == {"idle", "wake", "listening", "thinking", "talk", "sleep"}

VARIABLES
    config,           \* useMiniMeState's config as of the last render
    queued,           \* config with every queued setConfig updater applied
    rerender,         \* an effect of the last render queued an update
    micLevel,         \* useMicLevel's level, as App reads it
    backendEvent,     \* App's backendEvent state (latest setBackendEvent) until
                      \* the event effect has seen it; the effect never reads
                      \* an object twice, and the model then forgets it
    eventFresh,       \* backendEvent is an object the event effect has not seen
    isBlinking,       \* useBlink's state, as App reads it
    timeoutRef,       \* useBlink: timer until the next blink
    blinkTimeoutRef,  \* useBlink: timer until the blink ends
    wakeTimeout,      \* the wake effect's timer
    idleTimeoutRef,   \* the listening effect's timer
    sleepTimeoutRef,  \* the sleep effect's timer
    finalState,       \* state prop handed to MiniMeFace
    finalLevels,      \* levels prop handed to MiniMeFace
    animationFrame,   \* MiniMeFace's frame counter
    interval,         \* MiniMeFace's setInterval is running
    \* History, read by no action:
    sinceWake,        \* ms since the wake state was last entered, up to
                      \* WakeWatchMs; -1 if it was not in that time, or an
                      \* event came after it
    quiet,            \* ms for which the state has been what it is, idle or
                      \* listening, with every level read below the silence
                      \* threshold and no event; -1 when that is not so
    last,             \* what the last step did, if it was a render
    machinePending,   \* how many timeouts set by the wake, listening and sleep
                      \* effects are pending, by effect
    blinkPending,     \* how many timeouts set by scheduleBlink are pending:
                      \* open is the outer one, close the inner one
    elapsed,          \* ms since mount, while that is followed; -1 when not
    matrix,           \* the matrix MiniMeFace synthesized last, with the state
                      \* and frame it was synthesized for, while that is
                      \* followed
    \* The lifetime of the component:
    mounted,          \* App is mounted: useMicLevel's mounted flag
    streamRef         \* useMicLevel's stream: "pending" while getUserMedia is
                      \* outstanding, then "live" with updateLevel running,
                      \* or "rejected"; "stopped" once the cleanup has stopped
                      \* its tracks; "dropped" if it came after the cleanup
                      \* and was stopped without reaching the ref

vars == <<config, queued, rerender, micLevel, backendEvent, eventFresh, isBlinking,
          timeoutRef, blinkTimeoutRef, wakeTimeout, idleTimeoutRef,
          sleepTimeoutRef, finalState, finalLevels, animationFrame, interval,
          sinceWake, quiet, last, machinePending, blinkPending, elapsed,
          matrix, mounted, streamRef>>

blinkTimers == <<timeoutRef, blinkTimeoutRef, blinkPending>>
machineTimers == <<wakeTimeout, idleTimeoutRef, sleepTimeoutRef, machinePending>>
faceVars == <<finalState, finalLevels, animationFrame, interval>>
lifeVars == <<mounted, streamRef>>

\* matrix when the synthesized matrix is not followed.
NoMatrix == [state |-> "", frame |-> -1, frames |-> <<>>]

\* last, after a step that is no render.
NoRender == [event |-> NullEvent, from |-> "", sample |-> FALSE, cancelled |-> FALSE]

\* How long the silence is followed in state s: just past the state's timeout.
QuietLimit(s) == IF s = "idle" THEN IdleToSleepMs + 1 ELSE ListeningToIdleMs + 1

\* ------------------------------------------------------------ variants
\* Definitions that differ from the code in one branch; a property that
\* the code decides fails when one replaces the definition it is named for.

\* BackendEffect with a default branch that goes to idle.
BackendEffectDefaulting(q, ev) ==
    IF ev.isNull THEN q
    ELSE IF ev.event = "wake" THEN
        [q EXCEPT !.state = "wake", !.levels = <<>>, !.wakeStartTime = Now]
    ELSE IF ev.event = "talk" THEN
        [q EXCEPT !.state = "talk", !.levels = IF ev.hasLevels THEN ev.levels ELSE <<>>]
    ELSE IF ev.event \in {"thinking", "sleep", "listening"} THEN
        [q EXCEPT !.state = ev.event, !.levels = <<>>]
    ELSE [q EXCEPT !.state = "idle", !.levels = <<>>]

\* ListeningTimer without the clearTimeout of the loud branch.
ListeningTimerKeeping(t, s, m) ==
    IF s \in {"talk", "wake", "thinking", "sleep"} THEN t
    ELSE IF m > LoudThreshold THEN t
    ELSE IF s = "listening" /\ m < SilenceThreshold THEN Armed(ListeningToIdleMs)
    ELSE t

\* ListeningTimer that sets the timeout with the wake effect's delay.
ListeningTimerHasty(t, s, m) ==
    IF s \in {"talk", "wake", "thinking", "sleep"} THEN t
    ELSE IF m > LoudThreshold THEN Off
    ELSE IF s = "listening" /\ m < SilenceThreshold THEN Armed(WakeHoldMs)
    ELSE t

\* ListeningUpdate whose loud branch is taken in listening only.
ListeningUpdateInListening(q, s, m) ==
    IF s # "listening" THEN q
    ELSE IF m > LoudThreshold THEN [q EXCEPT !.state = "listening", !.levels = Fill(m)]
    ELSE IF m < SilenceThreshold THEN q
    ELSE [q EXCEPT !.levels = Fill(m)]

\* Variant of the wake effect that leaves a pending wake timeout running
\* when wake is entered again.
WakeEffectKeeping(c) ==
    IF c.state = "wake" /\ c.wakeStartTime # NullTime
    THEN (IF wakeTimeout.armed THEN wakeTimeout ELSE Armed(WakeHoldMs))
    ELSE Off

\* Variant of the listening effect's first guard that lets sleep through.
ListeningBlockedAwake(s) == s \in {"talk", "wake", "thinking"}

\* Variant of the sleep effect that takes every level up to the loud
\* threshold for silence.
SleepEffectLenient(s, m) ==
    IF s = "idle" /\ m <= LoudThreshold THEN Armed(IdleToSleepMs) ELSE Off

\* Variant of the sleep effect's count that sets the new timeout without
\* clearing the one the ref holds.
SleepPendingStacking(n, s, m) ==
    IF s = "idle" /\ m < SilenceThreshold THEN n + 1 ELSE 0

\* SleepEffect that never sets its timeout.
SleepEffectNever(s, m) == Off

\* FinalState without the exception for talk.
FinalStateAlwaysBlink(blinking, s) == IF blinking THEN "blink" ELSE s

\* ------------------------------------------------------------ useMiniMeState

\* Variant of the event effect that takes the event's name for the state,
\* whatever the name.
BackendEffectEcho(q, ev) ==
    IF ev.isNull THEN q
    ELSE IF ev.event = "wake" THEN
        [q EXCEPT !.state = "wake", !.levels = <<>>, !.wakeStartTime = Now]
    ELSE IF ev.event = "talk" THEN
        [q EXCEPT !.state = "talk", !.levels = IF ev.hasLevels THEN ev.levels ELSE <<>>]
    ELSE [q EXCEPT !.state = ev.event, !.levels = <<>>]

\* The backendEvent effect: the updater it queues on top of q.
BackendEffect(q, ev) ==
    IF ev.isNull THEN q
    ELSE IF ev.event = "wake" THEN
        [q EXCEPT !.state = "wake", !.levels = <<>>, !.wakeStartTime = Now]
    ELSE IF ev.event = "thinking" THEN
        [q EXCEPT !.state = "thinking", !.levels = <<>>]
    ELSE IF ev.event = "talk" THEN
        [q EXCEPT !.state = "talk", !.levels = IF ev.hasLevels THEN ev.levels ELSE <<>>]
    ELSE IF ev.event = "idle" THEN
        [q EXCEPT !.state = "idle", !.levels = <<>>]
    ELSE IF ev.event = "sleep" THEN
        [q EXCEPT !.state = "sleep", !.levels = <<>>]
    ELSE IF ev.event = "listening" THEN
        [q EXCEPT !.state = "listening", !.levels = <<>>]
    ELSE q

\* The wake effect, run when config.state or config.wakeStartTime changed:
\* the previous run's cleanup clears its timer, then the timer is set anew.
WakeEffect(c) ==
    IF c.state = "wake" /\ c.wakeStartTime # NullTime THEN Armed(WakeHoldMs) ELSE Off

\* The first guard of the listening effect.
ListeningBlocked(s) == s \in {"talk", "wake", "thinking", "sleep"}

\* The listening effect's queued updater, for the render's state s and level m.
ListeningUpdate(q, s, m) ==
    IF ListeningBlocked(s) THEN q
    ELSE IF m > LoudThreshold THEN [q EXCEPT !.state = "listening", !.levels = Fill(m)]
    ELSE IF s = "listening" /\ m < SilenceThreshold THEN q
    ELSE IF s = "listening" THEN [q EXCEPT !.levels = Fill(m)]
    ELSE q

\* Whether the listening effect calls setConfig.
ListeningSets(s, m) ==
    /\ ~ListeningBlocked(s)
    /\ m > LoudThreshold \/ (s = "listening" /\ m >= SilenceThreshold)

\* The listening effect's handling of idleTimeoutRef.
ListeningTimer(t, s, m) ==
    IF ListeningBlocked(s) THEN t
    ELSE IF m > LoudThreshold THEN Off
    ELSE IF s = "listening" /\ m < SilenceThreshold THEN Armed(ListeningToIdleMs)
    ELSE t

\* The sleep effect's handling of sleepTimeoutRef.
SleepEffect(s, m) ==
    IF s = "idle" /\ m < SilenceThreshold THEN Armed(IdleToSleepMs) ELSE Off

\* clearTimeout(ref.current) on a ref whose timeout is one of n pending: the
\* timeout the ref holds is pending no more.
Cleared(n) == IF n > 0 THEN n - 1 ELSE 0

\* Pending timeouts of the wake effect after it ran again on config c: the
\* cleanup of its previous run, then its body.
WakePending(n, c) ==
    Cleared(n) + (IF c.state = "wake" /\ c.wakeStartTime # NullTime THEN 1 ELSE 0)

\* Pending timeouts of the listening effect after it ran.
ListeningPending(n, s, m) ==
    IF ListeningBlocked(s) THEN n
    ELSE IF m > LoudThreshold THEN Cleared(n)
    ELSE IF s = "listening" /\ m < SilenceThreshold THEN Cleared(n) + 1
    ELSE n

\* Pending timeouts of the sleep effect after it ran.
SleepPending(n, s, m) ==
    IF s = "idle" /\ m < SilenceThreshold THEN Cleared(n) + 1 ELSE Cleared(n)

\* finalState: the blink override.
FinalState(blinking, s) == IF blinking /\ s # "talk" THEN "blink" ELSE s

\* ------------------------------------------------------------ App

\* finalLevels of App.
FinalLevels(s, lv, m) == IF s = "listening" /\ m > LoudThreshold THEN Fill(m) ELSE lv

\* ------------------------------------------------------------ MiniMeFace

Animated(s) == s \in {"idle", "wake", "thinking", "sleep"}

Max(a, b) == IF a > b THEN a ELSE b

\* Math.sin, to a thousandth: x >= 0 in thousandths of a radian, folded into
\* [-pi/2, pi/2] and summed as the series x - x^3/3! + x^5/5! - x^7/7!.
Sin(x) ==
    LET r == x % 6283
        y == IF r > 4712 THEN r - 6283 ELSE IF r > 1571 THEN 3142 - r ELSE r
        y2 == (y * y) \div 1000
        t3 == (y * y2) \div 6000
        t5 == (t3 * y2) \div 20000
        t7 == (t5 * y2) \div 42000
    IN  y - t3 + t5 - t7

\* The largest r in lo..hi with r * r <= n, by bisection; the midpoint is
\* bound once at each step.
RECURSIVE Root(_, _, _)
Root(n, lo, hi) ==
    IF lo >= hi THEN lo
    ELSE CHOOSE r \in {IF mid * mid <= n THEN Root(n, mid, hi) ELSE Root(n, lo, mid - 1) :
                       mid \in {(lo + hi + 1) \div 2}} : TRUE

\* Math.sqrt of a whole number n, in thousandths.
Sqrt(n) == Root(n * 1000000, 0, 46340)

\* Variant of the idle wave that is brighter while the levels prop is not
\* empty.
generateIdleWaveLevelled(frame, rows, cols) ==
    [row \in 0..(rows - 1) |-> [col \in 0..(cols - 1) |->
        Max(0, (Sin(500 * col + 50 * frame) * 300) \div 1000 + 300)
        + (IF Len(finalLevels) > 0 THEN 100 ELSE 0)]]

generateIdleWave(frame, rows, cols) ==
    [row \in 0..(rows - 1) |-> [col \in 0..(cols - 1) |->
        Max(0, (Sin(500 * col + 50 * frame) * 300) \div 1000 + 300)]]

generateWakePulse(frame, rows, cols) ==
    LET centerRow == rows \div 2
        centerCol == cols \div 2
        pulse == (Sin(300 * frame) * 500) \div 1000 + 500
        maxDist == Sqrt(rows * rows + cols * cols)
    IN  [row \in 0..(rows - 1) |-> [col \in 0..(cols - 1) |->
            LET dist == Sqrt((row - centerRow) * (row - centerRow)
                             + (col - centerCol) * (col - centerCol))
                intensity == (Max(0, 1000 - (dist * 2000) \div maxDist) * pulse) \div 1000
            IN  (intensity * 900) \div 1000]]

generateThinkingPulse(frame, rows, cols) ==
    LET pulse == (Sin(200 * frame) * 400) \div 1000 + 500
    IN  [row \in 0..(rows - 1) |-> [col \in 0..(cols - 1) |->
            LET phase == (1000 * (col + row) + 200 * frame) % 4000
            IN  IF phase < 2000 THEN pulse ELSE (pulse * 300) \div 1000]]

generateSleepPattern(frame, rows, cols) ==
    LET dim == (Sin(50 * frame) * 100) \div 1000 + 100
    IN  [row \in 0..(rows - 1) |-> [col \in 0..(cols - 1) |-> dim]]

\* generateBlinkPattern of useBlink.ts.
generateBlinkPattern(rows, cols) ==
    [row \in 0..(rows - 1) |-> [col \in 0..(cols - 1) |-> IF row < 2 THEN 900 ELSE 100]]

\* colValues.reduce((a, b) => a + b, 0) over the first n rows.
RECURSIVE ColumnSum(_, _, _)
ColumnSum(frames, col, n) ==
    IF n = 0 THEN 0 ELSE ColumnSum(frames, col, n - 1) + frames[n - 1][col]

\* Array.from({ length: 12 }, ...): the mean of each column.
ColumnMeans(frames) == [i \in 1..Cols |-> ColumnSum(frames, i - 1, Rows) \div Rows]

\* animationLevels: what MiniMeFace hands to Matrix for its props and frame.
AnimationLevels(state, levels, frame) ==
    IF state = "talk" THEN (IF Len(levels) > 0 THEN levels ELSE Fill(0))
    ELSE IF state = "listening" THEN (IF Len(levels) > 0 THEN levels ELSE Fill(0))
    ELSE IF state = "blink" THEN ColumnMeans(generateBlinkPattern(Rows, Cols))
    ELSE IF state = "idle" THEN ColumnMeans(generateIdleWave(frame, Rows, Cols))
    ELSE IF state = "wake" THEN ColumnMeans(generateWakePulse(frame, Rows, Cols))
    ELSE IF state = "thinking" THEN ColumnMeans(generateThinkingPulse(frame, Rows, Cols))
    ELSE IF state = "sleep" THEN ColumnMeans(generateSleepPattern(frame, Rows, Cols))
    ELSE Fill(0)

\* The matrix MiniMeFace synthesizes for its state prop and frame, before the
\* column means are taken; talk and listening synthesize none.
Synthesized(state, frame) ==
    IF state = "blink" THEN generateBlinkPattern(Rows, Cols)
    ELSE IF state = "idle" THEN generateIdleWave(frame, Rows, Cols)
    ELSE IF state = "wake" THEN generateWakePulse(frame, Rows, Cols)
    ELSE IF state = "thinking" THEN generateThinkingPulse(frame, Rows, Cols)
    ELSE IF state = "sleep" THEN generateSleepPattern(frame, Rows, Cols)
    ELSE <<>>

\* ------------------------------------------------------------ Init

\* config's micLevel and lastBackendEvent fields are written and never read;
\* the model leaves them out.
InitConfig == [state |-> "idle", levels |-> <<>>, wakeStartTime |-> NullTime]

\* The state after mount: every effect has run once.
Mounted ==
    /\ config = InitConfig
    /\ queued = InitConfig
    /\ rerender = FALSE
    /\ micLevel = 0
    /\ backendEvent = NullEvent
    /\ eventFresh = FALSE
    /\ isBlinking = FALSE
    /\ \E d \in BlinkDelays : timeoutRef = Armed(d)
    /\ blinkTimeoutRef = Off
    /\ wakeTimeout = Off
    /\ idleTimeoutRef = Off
    /\ sleepTimeoutRef = SleepEffect("idle", 0)
    /\ finalState = FinalState(FALSE, "idle")
    /\ finalLevels = FinalLevels("idle", <<>>, 0)
    /\ animationFrame = 0
    /\ interval = TRUE
    /\ sinceWake = -1
    /\ quiet = 0
    /\ last = NoRender
    /\ machinePending = [wake |-> 0, idle |-> 0, sleep |-> SleepPending(0, "idle", 0)]
    /\ blinkPending = [open |-> 1, close |-> 0]
    /\ mounted = TRUE

\* The claims about the state machine start with the microphone acquired.
Init == Mounted /\ elapsed = -1 /\ matrix = NoMatrix /\ streamRef = "live"

\* ------------------------------------------------------------ actions

Recognized(ev) ==
    ~ev.isNull /\ ev.event \in {"wake", "listening", "thinking", "talk", "idle", "sleep"}

\* One render of App with its hooks and of MiniMeFace, reading level m and
\* blink flag b, and the effects that follow the commit.  The render commits
\* every queued setConfig update; each effect whose dependencies changed
\* then runs with the values of this render, and what it passes to setConfig
\* is queued for the next render.
Commit(m, b) ==
    LET c == queued
        micChanged == m # micLevel
        stateChanged == c.state # config.state
        wakeChanged == stateChanged \/ c.wakeStartTime # config.wakeStartTime
        listens == micChanged \/ stateChanged
        q2 == IF eventFresh THEN BackendEffect(c, backendEvent) ELSE c
        q3 == IF listens THEN ListeningUpdate(q2, c.state, m) ELSE q2
        fs == FinalState(b, c.state)
        idleT == IF listens THEN ListeningTimer(idleTimeoutRef, c.state, m) ELSE idleTimeoutRef
    IN  /\ config' = c
        /\ queued' = q3
        /\ rerender' = \/ eventFresh /\ Recognized(backendEvent)
                       \/ listens /\ ListeningSets(c.state, m)
        /\ micLevel' = m
        /\ isBlinking' = b
        /\ backendEvent' = NullEvent
        /\ eventFresh' = FALSE
        /\ wakeTimeout' = IF wakeChanged THEN WakeEffect(c) ELSE wakeTimeout
        /\ idleTimeoutRef' = idleT
        /\ sleepTimeoutRef' = IF listens THEN SleepEffect(c.state, m) ELSE sleepTimeoutRef
        /\ finalState' = fs
        /\ finalLevels' = FinalLevels(fs, c.levels, m)
        /\ IF fs # finalState
           THEN /\ interval' = Animated(fs)
                /\ animationFrame' = IF Animated(fs) THEN animationFrame ELSE 0
           ELSE UNCHANGED <<interval, animationFrame>>
        /\ sinceWake' = IF eventFresh /\ ~backendEvent.isNull THEN -1
                        ELSE IF wakeChanged /\ WakeEffect(c).armed THEN 0
                        ELSE sinceWake
        /\ quiet' = IF c.state \notin {"idle", "listening"} \/ m >= SilenceThreshold THEN -1
                    ELSE IF stateChanged \/ eventFresh \/ quiet < 0 THEN 0
                    ELSE quiet
        /\ last' = [event |-> IF eventFresh THEN backendEvent ELSE NullEvent,
                    from |-> c.state,
                    sample |-> micChanged,
                    cancelled |-> idleTimeoutRef.armed /\ ~idleT.armed]
        /\ machinePending' =
              [wake |-> IF wakeChanged THEN WakePending(machinePending.wake, c)
                        ELSE machinePending.wake,
               idle |-> IF listens THEN ListeningPending(machinePending.idle, c.state, m)
                        ELSE machinePending.idle,
               sleep |-> IF listens THEN SleepPending(machinePending.sleep, c.state, m)
                         ELSE machinePending.sleep]
        /\ UNCHANGED <<elapsed, matrix, lifeVars>>

\* A render is due: setConfig or setBackendEvent has queued an update.
RenderPending == queued # config \/ eventFresh \/ rerender

\* The render React runs for queued setConfig and setBackendEvent updates.
Render ==
    /\ mounted
    /\ RenderPending
    /\ Commit(micLevel, isBlinking)
    /\ UNCHANGED blinkTimers

\* updateLevel of useMicLevel: setLevel with a new sample, and the render
\* that follows it within the same animation frame of the browser.
MicSample(v) ==
    /\ mounted /\ streamRef = "live"
    /\ ~rerender
    /\ v # micLevel
    /\ Commit(v, isBlinking)
    /\ UNCHANGED blinkTimers

\* socket.onmessage of the preload script and the handler App registered:
\* setBackendEvent.  A message that JSON.parse rejects reaches no handler,
\* and React drops a setBackendEvent on a component that is unmounted.
OnMessage(parses, msg) ==
    IF parses /\ mounted
    THEN /\ ~rerender
         /\ backendEvent' = msg
         /\ eventFresh' = TRUE
         /\ UNCHANGED <<config, queued, rerender, micLevel, isBlinking, blinkTimers,
                        machineTimers, faceVars, sinceWake, quiet, elapsed, matrix, lifeVars>>
         /\ last' = NoRender
    ELSE UNCHANGED vars

\* The wake effect's timeout callback.
WakeTimeoutFire ==
    /\ ~rerender
    /\ Due(wakeTimeout)
    /\ wakeTimeout' = Off
    /\ queued' = [queued EXCEPT !.state = "idle", !.wakeStartTime = NullTime]
    /\ UNCHANGED <<config, rerender, micLevel, backendEvent, eventFresh, isBlinking,
                   blinkTimers, idleTimeoutRef, sleepTimeoutRef, faceVars, sinceWake, quiet,
                   elapsed, matrix, lifeVars>>
    /\ machinePending' = [machinePending EXCEPT !.wake = @ - 1]
    /\ last' = NoRender

\* The listening effect's timeout callback.
IdleTimeoutFire ==
    /\ ~rerender
    /\ Due(idleTimeoutRef)
    /\ idleTimeoutRef' = Off
    /\ queued' = [queued EXCEPT !.state = "idle", !.levels = <<>>]
    /\ UNCHANGED <<config, rerender, micLevel, backendEvent, eventFresh, isBlinking,
                   blinkTimers, wakeTimeout, sleepTimeoutRef, faceVars, sinceWake, quiet,
                   elapsed, matrix, lifeVars>>
    /\ machinePending' = [machinePending EXCEPT !.idle = @ - 1]
    /\ last' = NoRender

\* The sleep effect's timeout callback.
SleepTimeoutFire ==
    /\ ~rerender
    /\ Due(sleepTimeoutRef)
    /\ sleepTimeoutRef' = Off
    /\ queued' = [queued EXCEPT !.state = "sleep", !.levels = <<>>]
    /\ UNCHANGED <<config, rerender, micLevel, backendEvent, eventFresh, isBlinking,
                   blinkTimers, wakeTimeout, idleTimeoutRef, faceVars, sinceWake, quiet,
                   elapsed, matrix, lifeVars>>
    /\ machinePending' = [machinePending EXCEPT !.sleep = @ - 1]
    /\ last' = NoRender

\* Variant of the outer timeout callback whose render hands the state
\* machine a level of 0 in place of the microphone's.
BlinkStartMuting ==
    /\ ~rerender
    /\ Due(timeoutRef)
    /\ timeoutRef' = Off
    /\ blinkTimeoutRef' = Armed(BlinkCloseMs)
    /\ blinkPending' = [open |-> blinkPending.open - 1, close |-> blinkPending.close + 1]
    /\ Commit(0, TRUE)

\* scheduleBlink's outer timeout callback: setIsBlinking(true) and the render
\* that follows, and the inner timeout is set.
BlinkStart ==
    /\ ~rerender
    /\ Due(timeoutRef)
    /\ timeoutRef' = Off
    /\ blinkTimeoutRef' = Armed(BlinkCloseMs)
    /\ blinkPending' = [open |-> blinkPending.open - 1, close |-> blinkPending.close + 1]
    /\ Commit(micLevel, TRUE)

\* Variant of the inner timeout callback that opens the eyes and does not
\* call scheduleBlink again.
BlinkEndOnce(delay) ==
    /\ ~rerender
    /\ Due(blinkTimeoutRef)
    /\ blinkTimeoutRef' = Off
    /\ timeoutRef' = Off
    /\ blinkPending' = [open |-> blinkPending.open, close |-> blinkPending.close - 1]
    /\ Commit(micLevel, FALSE)

\* scheduleBlink's inner timeout callback: setIsBlinking(false) and the render
\* that follows, and scheduleBlink again.
BlinkEnd(delay) ==
    /\ ~rerender
    /\ Due(blinkTimeoutRef)
    /\ blinkTimeoutRef' = Off
    /\ timeoutRef' = Armed(delay)
    /\ blinkPending' = [open |-> blinkPending.open + 1, close |-> blinkPending.close - 1]
    /\ Commit(micLevel, FALSE)

\* MiniMeFace's interval callback.  Its 50 ms period is not modelled: it may
\* run at any moment while the interval is set.
AnimationTick ==
    /\ ~rerender
    /\ interval
    /\ animationFrame < MaxFrame
    /\ animationFrame' = animationFrame + 1
    /\ UNCHANGED <<config, queued, rerender, micLevel, backendEvent, eventFresh,
                   isBlinking, blinkTimers, machineTimers, finalState, finalLevels, interval,
                   sinceWake, quiet, elapsed, matrix, lifeVars>>
    /\ last' = NoRender

\* ------------------------------------------------------------ time

Elapse(t, d) == IF t.armed THEN [t EXCEPT !.left = t.left - d] ELSE t
Older(s) == IF s = Now THEN Earlier ELSE s
Watched(a, d) == IF a < 0 \/ a + d > WakeWatchMs THEN -1 ELSE a + d
CanWait(t, d) == ~t.armed \/ d <= t.left

\* d milliseconds pass for the state machine's timers.  Rendering takes no
\* time, and a timer runs its callback the moment it is due.
Tick(d) ==
    /\ ~RenderPending
    /\ CanWait(wakeTimeout, d) /\ CanWait(idleTimeoutRef, d) /\ CanWait(sleepTimeoutRef, d)
    /\ d > 0
    /\ wakeTimeout' = Elapse(wakeTimeout, d)
    /\ idleTimeoutRef' = Elapse(idleTimeoutRef, d)
    /\ sleepTimeoutRef' = Elapse(sleepTimeoutRef, d)
    /\ config' = [config EXCEPT !.wakeStartTime = Older(@)]
    /\ queued' = [queued EXCEPT !.wakeStartTime = Older(@)]
    /\ sinceWake' = Watched(sinceWake, d)
    /\ quiet' = IF quiet < 0 THEN -1 ELSE Min(quiet + d, QuietLimit(config.state))
    /\ last' = NoRender
    /\ elapsed' = IF elapsed < 0 THEN -1 ELSE Min(elapsed + d, ScriptEndMs)
    /\ UNCHANGED <<matrix, lifeVars>>
    /\ UNCHANGED <<rerender, micLevel, backendEvent, eventFresh, isBlinking, blinkTimers,
                   faceVars, machinePending>>

\* The blink scheduler's timers run down to the next one due.  The blink
\* cycle shares no timer with the state machine, and the model leaves its
\* phase against the state machine's timers open: the two advance apart.
BlinkWait ==
    /\ ~RenderPending
    /\ timeoutRef.armed \/ blinkTimeoutRef.armed
    /\ ~Due(timeoutRef) /\ ~Due(blinkTimeoutRef)
    /\ timeoutRef' = Elapse(timeoutRef, timeoutRef.left)
    /\ blinkTimeoutRef' = Elapse(blinkTimeoutRef, blinkTimeoutRef.left)
    /\ UNCHANGED <<config, queued, rerender, micLevel, backendEvent, eventFresh,
                   isBlinking, machineTimers, faceVars, sinceWake, quiet, blinkPending,
                   elapsed, matrix, lifeVars>>
    /\ last' = NoRender

\* The time until the next armed timer is due (0 if none is armed).
NextDue ==
    LET lefts == {t.left : t \in {x \in {wakeTimeout, idleTimeoutRef,
                                          sleepTimeoutRef} : x.armed}}
    IN  IF lefts = {} THEN 0 ELSE CHOOSE l \in lefts : \A k \in lefts : l <= k

Next ==
    \/ Render
    \/ \E v \in Amplitudes : MicSample(v)
    \/ \E msg \in Messages : OnMessage(TRUE, msg)
    \/ OnMessage(FALSE, NullEvent)
    \/ WakeTimeoutFire
    \/ IdleTimeoutFire
    \/ SleepTimeoutFire
    \/ BlinkStart
    \/ \E d \in BlinkDelays : BlinkEnd(d)
    \/ AnimationTick
    \/ \E d \in TickSteps \cup {NextDue} : Tick(d)
    \/ BlinkWait

Spec == Init /\ [][Next]_vars

TimePasses == \E d \in TickSteps \cup {NextDue} : Tick(d)

\* ------------------------------------------------------------ the blink cycle
\* The whole of Next but the wake event, with fewer messages and levels, and
\* with what the browser and React guarantee about scheduling: a render that
\* is due runs; the blink scheduler's timeouts keep running and a due one
\* runs its callback, however often renders come in between.

BlinkMessages == {Msg("talk", FALSE, <<>>), Msg("idle", FALSE, <<>>)}
BlinkAmplitudes == {0, 500}

RunBlinkEnd == \E d \in BlinkDelays : BlinkEnd(d)

BlinkNext ==
    \/ Render
    \/ \E v \in BlinkAmplitudes : MicSample(v)
    \/ \E msg \in BlinkMessages : OnMessage(TRUE, msg)
    \/ IdleTimeoutFire
    \/ SleepTimeoutFire
    \/ BlinkStart
    \/ RunBlinkEnd
    \/ AnimationTick
    \/ TimePasses
    \/ BlinkWait

BlinkSpec ==
    /\ Init
    /\ [][BlinkNext]_vars
    /\ WF_vars(Render)
    /\ SF_vars(BlinkWait)
    /\ SF_vars(BlinkStart)
    /\ SF_vars(RunBlinkEnd)

\* ------------------------------------------------------------ a scripted run
\* The microphone reads 0.5 from mount for ScriptLoudMs, and 0.01 from then
\* on; the backend sends nothing.

ScriptLevel(t) == IF t < ScriptLoudMs THEN 500 ELSE 10

ScriptSteps == {ScriptLoudMs, 1000}

ScriptInit == Mounted /\ elapsed = 0 /\ matrix = NoMatrix /\ streamRef = "live"

\* updateLevel reads the level the script has for the present instant.
ScriptSample == MicSample(ScriptLevel(elapsed))

\* Time passes once the level of the instant has been read, and not past an
\* instant at which the script changes the level.
ScriptTick(d) ==
    /\ micLevel = ScriptLevel(elapsed)
    /\ ScriptLevel(elapsed + d - 1) = ScriptLevel(elapsed)
    /\ Tick(d)

ScriptNext ==
    \/ ScriptSample
    \/ \E d \in ScriptSteps \cup {NextDue} : ScriptTick(d)
    \/ Render
    \/ IdleTimeoutFire
    \/ SleepTimeoutFire
    \/ BlinkStart
    \/ \E d \in BlinkDelays : BlinkEnd(d)
    \/ AnimationTick
    \/ BlinkWait

ScriptSpec == ScriptInit /\ [][ScriptNext]_vars

\* ------------------------------------------------------------ a run without microphone
\* getUserMedia rejects: updateLevel never runs, and the backend sends nothing.

\* The catch of setupMicrophone: setLevel(0) on a level that is 0 already,
\* which React does not render.
MicFailure ==
    /\ micLevel = 0
    /\ micLevel' = 0
    /\ UNCHANGED <<config, queued, rerender, backendEvent, eventFresh, isBlinking,
                   blinkTimers, machineTimers, faceVars, sinceWake, quiet, last, elapsed, matrix, lifeVars>>

FailedMicNext ==
    \/ MicFailure
    \/ TimePasses
    \/ Render
    \/ SleepTimeoutFire
    \/ BlinkStart
    \/ \E d \in BlinkDelays : BlinkEnd(d)
    \/ AnimationTick
    \/ BlinkWait

\* Time passes, a timeout that is due runs its callback, and React renders
\* what is queued.
FailedMicInit == Mounted /\ elapsed = -1 /\ matrix = NoMatrix /\ streamRef = "rejected"

FailedMicSpec ==
    /\ FailedMicInit
    /\ [][FailedMicNext]_vars
    /\ WF_vars(TimePasses)
    /\ WF_vars(SleepTimeoutFire)
    /\ WF_vars(Render)

\* ------------------------------------------------------------ the synthesizer
\* MiniMeFace alone: its props are the inputs, drawn from FaceStates and
\* FaceLevels, and its frame counter runs up to SynthFrames.

FaceStates == LogicalStates \cup {"blink"}
FaceLevels == {<<>>, Fill(500)}

\* What a render of MiniMeFace synthesizes, in the state it renders in.
Shown ==
    [state |-> finalState, frame |-> animationFrame,
     frames |-> Synthesized(finalState, animationFrame)]

SynthInit == Mounted /\ elapsed = -1 /\ matrix = Shown /\ streamRef = "live"

\* App renders MiniMeFace with props s and lv; the animation effect runs if
\* the state prop has changed, and sets or clears the interval.
SynthRender(s, lv) ==
    /\ finalState' = s
    /\ finalLevels' = lv
    /\ interval' = IF s # finalState THEN Animated(s) ELSE interval
    /\ UNCHANGED animationFrame
    /\ UNCHANGED <<config, queued, rerender, micLevel, backendEvent, eventFresh,
                   isBlinking, blinkTimers, machineTimers, sinceWake, quiet, last,
                   elapsed>>
    /\ UNCHANGED lifeVars
    /\ matrix' = Shown'

\* The animation effect's setAnimationFrame(0), and the render that follows.
SynthReset ==
    /\ ~interval
    /\ animationFrame # 0
    /\ animationFrame' = 0
    /\ UNCHANGED <<config, queued, rerender, micLevel, backendEvent, eventFresh,
                   isBlinking, blinkTimers, machineTimers, finalState, finalLevels,
                   interval, sinceWake, quiet, last, elapsed>>
    /\ UNCHANGED lifeVars
    /\ matrix' = Shown'

\* The interval callback's setAnimationFrame(prev => prev + 1), and the
\* render that follows.
SynthTick ==
    /\ interval
    /\ animationFrame < SynthFrames
    /\ animationFrame' = animationFrame + 1
    /\ UNCHANGED <<config, queued, rerender, micLevel, backendEvent, eventFresh,
                   isBlinking, blinkTimers, machineTimers, finalState, finalLevels,
                   interval, sinceWake, quiet, last, elapsed>>
    /\ UNCHANGED lifeVars
    /\ matrix' = Shown'

SynthNext ==
    \/ \E s \in FaceStates, lv \in FaceLevels : SynthRender(s, lv)
    \/ SynthReset
    \/ SynthTick

SynthSpec == SynthInit /\ [][SynthNext]_vars

\* ------------------------------------------------------------ teardown
\* The component from mount, with getUserMedia outstanding, to its unmount
\* and after.

TeardownMessages == {Msg("wake", FALSE, <<>>), Msg("talk", FALSE, <<>>)}

TeardownInit == Mounted /\ elapsed = -1 /\ matrix = NoMatrix /\ streamRef = "pending"

\* Variant of setupMicrophone that does not look at mounted once getUserMedia
\* has resolved.
AcquireUnchecked ==
    /\ streamRef = "pending"
    /\ streamRef' = "live"
    /\ last' = NoRender
    /\ UNCHANGED <<config, queued, rerender, micLevel, backendEvent, eventFresh,
                   isBlinking, blinkTimers, machineTimers, faceVars, sinceWake, quiet,
                   elapsed, matrix, mounted>>

\* setupMicrophone after getUserMedia has resolved: if the component is
\* unmounted the tracks are stopped and it returns; else the stream goes to
\* the ref and updateLevel starts.
Acquire ==
    /\ streamRef = "pending"
    /\ streamRef' = IF mounted THEN "live" ELSE "dropped"
    /\ last' = NoRender
    /\ UNCHANGED <<config, queued, rerender, micLevel, backendEvent, eventFresh,
                   isBlinking, blinkTimers, machineTimers, faceVars, sinceWake, quiet,
                   elapsed, matrix, mounted>>

\* setupMicrophone's catch: setLevel(0) on a level that no sample has
\* changed yet.
AcquireFails ==
    /\ streamRef = "pending"
    /\ streamRef' = "rejected"
    /\ last' = NoRender
    /\ UNCHANGED <<config, queued, rerender, micLevel, backendEvent, eventFresh,
                   isBlinking, blinkTimers, machineTimers, faceVars, sinceWake, quiet,
                   elapsed, matrix, mounted>>

\* Variant of the unmount in which the wake effect has no cleanup.
UnmountLeakingWake ==
    /\ mounted
    /\ mounted' = FALSE
    /\ idleTimeoutRef' = Off
    /\ sleepTimeoutRef' = Off
    /\ machinePending' = [wake |-> machinePending.wake,
                          idle |-> Cleared(machinePending.idle),
                          sleep |-> Cleared(machinePending.sleep)]
    /\ timeoutRef' = Off
    /\ blinkTimeoutRef' = Off
    /\ blinkPending' = [open |-> Cleared(blinkPending.open),
                        close |-> Cleared(blinkPending.close)]
    /\ interval' = FALSE
    /\ streamRef' = IF streamRef = "live" THEN "stopped" ELSE streamRef
    /\ last' = NoRender
    /\ UNCHANGED <<config, queued, rerender, micLevel, backendEvent, eventFresh,
                   isBlinking, wakeTimeout, finalState, finalLevels, animationFrame,
                   sinceWake, quiet, elapsed, matrix>>

\* The unmount of App: every effect's cleanup runs.  The wake effect's
\* clears its timeout; useMiniMeState's last effect clears idleTimeoutRef
\* and sleepTimeoutRef; useBlink's clears timeoutRef and blinkTimeoutRef;
\* MiniMeFace's clears the interval; useMicLevel's sets mounted to false,
\* cancels the animation frame and stops the tracks of the stream it has.
Unmount ==
    /\ mounted
    /\ mounted' = FALSE
    /\ wakeTimeout' = Off
    /\ idleTimeoutRef' = Off
    /\ sleepTimeoutRef' = Off
    /\ machinePending' = [wake |-> Cleared(machinePending.wake),
                          idle |-> Cleared(machinePending.idle),
                          sleep |-> Cleared(machinePending.sleep)]
    /\ timeoutRef' = Off
    /\ blinkTimeoutRef' = Off
    /\ blinkPending' = [open |-> Cleared(blinkPending.open),
                        close |-> Cleared(blinkPending.close)]
    /\ interval' = FALSE
    /\ streamRef' = IF streamRef = "live" THEN "stopped" ELSE streamRef
    /\ last' = NoRender
    /\ UNCHANGED <<config, queued, rerender, micLevel, backendEvent, eventFresh,
                   isBlinking, finalState, finalLevels, animationFrame,
                   sinceWake, quiet, elapsed, matrix>>

TeardownNext ==
    \/ Acquire
    \/ AcquireFails
    \/ Unmount
    \/ Render
    \/ \E v \in BlinkAmplitudes : MicSample(v)
    \/ \E msg \in TeardownMessages : OnMessage(TRUE, msg)
    \/ WakeTimeoutFire
    \/ IdleTimeoutFire
    \/ SleepTimeoutFire
    \/ BlinkStart
    \/ RunBlinkEnd
    \/ AnimationTick
    \/ TimePasses
    \/ BlinkWait

TeardownSpec == TeardownInit /\ [][TeardownNext]_vars

\* The level vector on the display.
Emitted == AnimationLevels(finalState, finalLevels, animationFrame)

\* ------------------------------------------------------------ properties

\* C1: after a recognized backend event has been processed, the render that
\* commits its update shows the event's target state, whatever the state,
\* amplitude and blink flag were.
C1_EventSetsState ==
    [][Recognized(last.event) => config'.state = last.event.event]_vars

\* C2: a render that processes an event of an unrecognized kind (or the JSON
\* value null), and nothing else, leaves the state, the levels and every
\* pending timer of the state machine as they were and queues no update.
C2_UnknownIgnored ==
    [][(/\ eventFresh /\ ~Recognized(backendEvent) /\ ~eventFresh'
        /\ queued = config /\ micLevel' = micLevel /\ isBlinking' = isBlinking)
       => (/\ config' = config /\ queued' = queued /\ ~rerender'
           /\ machineTimers' = machineTimers
           /\ finalState' = finalState /\ finalLevels' = finalLevels)]_vars

\* C2: an event of unknown kind has just been processed in listening while the
\* listening timer was pending.
C2_Witness ==
    /\ ~last.event.isNull /\ ~Recognized(last.event) /\ ~last.sample
    /\ config.state = "listening" /\ idleTimeoutRef.armed /\ queued = config

\* C3: once the wake state is entered and no event follows, the display
\* shows wake for the first 499 ms and no longer shows it from 501 ms on
\* (looked at between blinks, when every due callback and render has run).
C3_WakeHold ==
    (sinceWake >= 0 /\ ~RenderPending /\ ~isBlinking)
    => /\ sinceWake <= WakeHoldMs - 1 => finalState = "wake"
       /\ sinceWake >= WakeHoldMs + 1 => finalState # "wake"

\* C4: the state is never idle with every level read below the silence
\* threshold, and no event, for longer than the idle-to-sleep timeout.
C4_IdleSleeps == config.state = "idle" => quiet <= IdleToSleepMs

\* C5: the state is never listening with every level read below the silence
\* threshold, and no event, for longer than the listening-to-idle timeout.
C5_ListeningIdles == config.state = "listening" => quiet <= ListeningToIdleMs

\* C6: a render in listening that reads a new level above the loud threshold
\* while the listening timer is pending clears the timer and queues
\* listening, and the next render is in listening.
C6_LoudCancels ==
    [][/\ (/\ last'.sample /\ micLevel' > LoudThreshold
           /\ config'.state = "listening" /\ idleTimeoutRef.armed)
          => (~idleTimeoutRef'.armed /\ queued'.state = "listening")
       /\ last.cancelled /\ last.sample /\ micLevel > LoudThreshold
          => (config'.state = "listening" /\ ~idleTimeoutRef'.armed)]_vars

\* C6: a loud level has just cleared the pending listening timer.
C6_Witness ==
    /\ last.cancelled /\ last.sample /\ micLevel > LoudThreshold
    /\ config.state = "listening" /\ queued.state = "listening"

\* C7: a render in idle or listening that reads a new level above the loud
\* threshold queues listening with 12 copies of the level, and the next
\* render shows them.
C7_LoudListens ==
    [][/\ (/\ last'.sample /\ micLevel' > LoudThreshold
           /\ config'.state \in {"idle", "listening"})
          => (/\ rerender' /\ queued'.state = "listening"
              /\ queued'.levels = Fill(micLevel'))
       /\ (/\ last.sample /\ micLevel > LoudThreshold
           /\ config.state \in {"idle", "listening"})
          => (/\ config'.state = "listening" /\ config'.levels = Fill(micLevel)
              /\ finalLevels' = Fill(micLevel)
              /\ ~isBlinking' => Emitted' = Fill(micLevel))]_vars

\* C7: a loud level read in idle has queued listening with its 12 copies.
C7_Witness ==
    /\ last.sample /\ micLevel > LoudThreshold /\ config.state = "idle"
    /\ queued.state = "listening" /\ queued.levels = Fill(micLevel)

\* C8: the displayed state is blink exactly when the blink flag is set and
\* the state is not talk, and is the state itself otherwise.
C8_Display ==
    finalState = IF isBlinking /\ config.state # "talk" THEN "blink" ELSE config.state

\* C8: the blink flag is set during talk, and talk is displayed.
C8_Witness == isBlinking /\ config.state = "talk" /\ finalState = "talk"

\* C9: when the render that follows a talk event is in talk, the display
\* has the event's levels if it carried any, and 12 zeros if not.
C9_TalkLevels ==
    [][(~last.event.isNull /\ last.event.event = "talk" /\ config'.state = "talk")
       => Emitted' = IF last.event.hasLevels /\ Len(last.event.levels) > 0
                     THEN last.event.levels ELSE Fill(0)]_vars

\* C10: the level vector on the display has 12 elements, each in [0, 1].
C10_VectorShape ==
    /\ Len(Emitted) = Cols
    /\ \A i \in 1..Len(Emitted) : Emitted[i] >= 0 /\ Emitted[i] <= 1000


\* C11: in the scripted run the state is idle at mount, listening from the
\* first loud level until the listening timeout after the last one, idle from
\* then until the sleep timeout, and sleep after; every change of state is
\* idle to listening, listening to idle or idle to sleep.
C11_Sequence ==
    /\ [](config.state \in
            IF elapsed = 0 THEN {"idle", "listening"}
            ELSE IF elapsed < ScriptLoudMs + ListeningToIdleMs THEN {"listening"}
            ELSE IF elapsed = ScriptLoudMs + ListeningToIdleMs THEN {"listening", "idle"}
            ELSE IF elapsed < ScriptLoudMs + ListeningToIdleMs + IdleToSleepMs THEN {"idle"}
            ELSE IF elapsed = ScriptLoudMs + ListeningToIdleMs + IdleToSleepMs
                 THEN {"idle", "sleep"}
            ELSE {"sleep"})
    /\ [][config'.state # config.state
          => <<config.state, config'.state>> \in
               {<<"idle", "listening">>, <<"listening", "idle">>, <<"idle", "sleep">>}]_vars

\* C11: the scripted run has reached sleep, at the sleep timeout after the
\* listening timeout.
C11_Witness ==
    /\ elapsed = ScriptLoudMs + ListeningToIdleMs + IdleToSleepMs
    /\ config.state = "sleep" /\ micLevel = 10

\* C12: without a microphone the level is 0 at all times, the state is idle
\* until it is sleep, it becomes sleep after the sleep timeout's 10000 ms of
\* silence and not before, and it does become sleep.
C12_FailedMicSleeps ==
    /\ [](micLevel = 0 /\ config.state \in {"idle", "sleep"})
    /\ [][config'.state # config.state
          => (config'.state = "sleep" /\ quiet = IdleToSleepMs)]_vars
    /\ <>(config.state = "sleep")

\* C12: without a microphone, sleep has been reached.
C12_Witness ==
    /\ config.state = "sleep" /\ micLevel = 0 /\ finalLevels = <<>>
    /\ ~sleepTimeoutRef.armed /\ ~idleTimeoutRef.armed

\* C13: the eyes are closed exactly while the inner timeout of at most 120 ms
\* is pending and open exactly while the outer one is; they close when the
\* outer timeout is due and the inner one then has 120 ms to run; they open
\* when the inner one is due, and the outer one is then set to a delay in
\* [3000, 6000); closed and open each recur for ever, whatever the backend
\* and the microphone do.
C13_BlinkCycle ==
    /\ [](IF isBlinking
          THEN /\ blinkTimeoutRef.armed /\ blinkTimeoutRef.left <= BlinkCloseMs
               /\ ~timeoutRef.armed
          ELSE /\ timeoutRef.armed /\ timeoutRef.left < BlinkMinMs + BlinkSpanMs
               /\ ~blinkTimeoutRef.armed)
    /\ [][/\ (~isBlinking /\ isBlinking')
             => (Due(timeoutRef) /\ blinkTimeoutRef' = Armed(BlinkCloseMs))
          /\ (isBlinking /\ ~isBlinking')
             => /\ Due(blinkTimeoutRef)
                /\ timeoutRef'.armed
                /\ timeoutRef'.left >= BlinkMinMs
                /\ timeoutRef'.left < BlinkMinMs + BlinkSpanMs]_vars
    /\ []<>isBlinking
    /\ []<>~isBlinking

\* C13: the eyes are closed during talk with a message waiting to be
\* rendered, and the inner timeout is due.
C13_Witness ==
    /\ isBlinking /\ Due(blinkTimeoutRef) /\ config.state = "talk" /\ eventFresh

\* C14: the logical state is idle at mount and is always one of idle, wake,
\* listening, thinking, talk and sleep, in the committed configuration and
\* in the one queued for the next render; it is never blink.
C14_LogicalStates ==
    /\ config.state = "idle"
    /\ [](config.state \in LogicalStates /\ queued.state \in LogicalStates)

\* C14: the face shows the blink while the logical state is idle.
C14_Witness ==
    /\ isBlinking /\ finalState = "blink" /\ config.state = "idle"

Fresh(t, ms) == ~t.armed \/ t.left = ms

\* C16: once a recognized event has been rendered and the render it queued
\* has run, no timeout set before the event is pending: each of the wake,
\* listening and sleep timeouts is cleared or newly set.
C16_EventCancels ==
    [][Recognized(last.event)
       => /\ Fresh(wakeTimeout', WakeHoldMs)
          /\ Fresh(idleTimeoutRef', ListeningToIdleMs)
          /\ Fresh(sleepTimeoutRef', IdleToSleepMs)]_vars

C18_SampleIgnored ==
    [][(/\ last'.sample /\ last'.event.isNull
        /\ config'.state \in {"talk", "wake", "thinking", "sleep"})
       => /\ queued'.state = config'.state
          /\ queued'.levels = config'.levels
          /\ finalLevels' = config'.levels
          /\ ~rerender'
          /\ idleTimeoutRef'.armed => idleTimeoutRef' = idleTimeoutRef
          /\ machinePending'.idle = machinePending.idle
          /\ ~sleepTimeoutRef'.armed]_vars

\* C18: a loud level has been read in talk, with the levels of the talk
\* event in place.
C18_Witness ==
    /\ last.sample /\ last.event.isNull /\ micLevel > LoudThreshold
    /\ config.state = "talk" /\ config.levels # <<>> /\ queued = config

C20_OnePending ==
    /\ machinePending.wake = (IF wakeTimeout.armed THEN 1 ELSE 0)
    /\ machinePending.idle = (IF idleTimeoutRef.armed THEN 1 ELSE 0)
    /\ machinePending.sleep = (IF sleepTimeoutRef.armed THEN 1 ELSE 0)
    /\ blinkPending.open = (IF timeoutRef.armed THEN 1 ELSE 0)
    /\ blinkPending.close = (IF blinkTimeoutRef.armed THEN 1 ELSE 0)

\* C20: a new level below the silence threshold has been read in idle after
\* a time of silence: the sleep timeout pending before it was cleared and a
\* new one set, and one is pending.
C20_Witness ==
    /\ last.sample /\ config.state = "idle" /\ quiet > 0
    /\ sleepTimeoutRef = Armed(IdleToSleepMs) /\ machinePending.sleep = 1

\* C21: a step that changes the blink flag commits what was queued and no
\* more: with nothing waiting to be rendered it leaves the state, the stored
\* levels, the queued configuration and the wake, listening and sleep
\* timeouts as they were.
C21_BlinkFrame ==
    [][isBlinking' # isBlinking
       => /\ config' = queued
          /\ micLevel' = micLevel
          /\ ~RenderPending
             => /\ config' = config
                /\ queued' = queued
                /\ ~rerender'
                /\ wakeTimeout' = wakeTimeout
                /\ idleTimeoutRef' = idleTimeoutRef
                /\ sleepTimeoutRef' = sleepTimeoutRef
                /\ machinePending' = machinePending]_vars

\* C21: the eyes have just closed in listening, with a listening timeout
\* part of the way through and a level at or above the silence threshold;
\* the timeout is pending as before.
C21_Witness ==
    /\ isBlinking /\ blinkTimeoutRef = Armed(BlinkCloseMs) /\ last.from = "listening"
    /\ ~last.sample /\ last.event.isNull
    /\ config.state = "listening" /\ queued = config
    /\ idleTimeoutRef.armed /\ idleTimeoutRef.left < ListeningToIdleMs
    /\ micLevel >= SilenceThreshold

\* C22: the frame counter never decreases; it changes only by the interval
\* callback's increment, in idle, wake, thinking or sleep, and a render
\* that shows talk, listening or the blink leaves it as it was.
C22_FrameFrozen ==
    [][/\ animationFrame' >= animationFrame
       /\ animationFrame' # animationFrame
          => (animationFrame' = animationFrame + 1 /\ Animated(finalState))]_vars

\* C23: a recognized message that the event effect has not seen yet stays
\* the message it will see, until a render has run the effect on it: no
\* message is dropped for a later one.
C23_NoneSkipped ==
    [][(eventFresh /\ Recognized(backendEvent))
       => (backendEvent' = backendEvent \/ ~eventFresh')]_vars

\* The timeouts and periodic callbacks of the component: none is pending.
AllCancelled ==
    /\ ~wakeTimeout.armed /\ ~idleTimeoutRef.armed /\ ~sleepTimeoutRef.armed
    /\ ~timeoutRef.armed /\ ~blinkTimeoutRef.armed
    /\ machinePending = [wake |-> 0, idle |-> 0, sleep |-> 0]
    /\ blinkPending = [open |-> 0, close |-> 0]
    /\ ~interval
    /\ streamRef # "live"

\* C24: once the component is unmounted no timeout, interval or sampling
\* loop is pending, and no step changes the state and levels, rendered or
\* queued, the level, the event, the blink flag, the frame or what the face
\* is given.
C24_Teardown ==
    /\ [](~mounted => AllCancelled)
    /\ [][~mounted
          => UNCHANGED <<config.state, config.levels, queued.state, queued.levels,
                         rerender, micLevel, backendEvent, eventFresh, isBlinking,
                         finalState, finalLevels, animationFrame, mounted>>]_vars

\* C24: unmounted in wake with the eyes closed, and more than the wake
\* hold has passed since wake was entered.
C24_Witness ==
    /\ ~mounted /\ config.state = "wake" /\ isBlinking /\ sinceWake > WakeHoldMs

\* C28: a stream that getUserMedia delivers after the unmount is stopped
\* without reaching the ref, and no sampling loop runs after the unmount:
\* the level never changes again.
C28_LateStream ==
    /\ [](~mounted => streamRef \in {"pending", "dropped", "stopped", "rejected"})
    /\ [][~mounted
          => /\ micLevel' = micLevel
             /\ streamRef' # streamRef
                => (streamRef = "pending" /\ streamRef' \in {"dropped", "rejected"})]_vars

\* C28: getUserMedia has resolved after the unmount and its stream was
\* dropped; no sample was ever read.
C28_Witness ==
    /\ ~mounted /\ streamRef = "dropped" /\ micLevel = 0

\* C25: once talk or thinking is the state, rendered or queued, the queued
\* state changes only in a render that runs the event effect on a
\* recognized message.
C25_TalkStays ==
    [][(queued.state \in {"talk", "thinking"} /\ queued'.state # queued.state)
       => (eventFresh /\ Recognized(backendEvent) /\ last'.from # "")]_vars

\* C26: when the listening timeout's callback runs in listening, every
\* level read in the 3000 ms before it was below the silence threshold.
C26_SilenceOnly ==
    [][(/\ Due(idleTimeoutRef) /\ ~idleTimeoutRef'.armed /\ last'.from = ""
        /\ config.state = "listening" /\ queued'.state = "idle")
       => quiet >= ListeningToIdleMs]_vars

\* C27: in idle, wake, thinking and sleep the stored levels are empty, in
\* the rendered configuration and in the queued one.
C27_LevelsEmpty ==
    /\ config.state \in {"idle", "wake", "thinking", "sleep"} => config.levels = <<>>
    /\ queued.state \in {"idle", "wake", "thinking", "sleep"} => queued.levels = <<>>

=============================================================================
